---------------------------- MODULE Spec2Model ----------------------------
(***************************************************************************)
(* A model of tcpping_python3.py: the ResultBucket aggregator, the probe   *)
(* conn_tcp, the driver loop go, the signal handler my_exit and the        *)
(* start-up sequence of __main__.                                          *)
(*                                                                         *)
(* Python floats are binary floating-point numbers rounded to nearest,     *)
(* ties to even.  The model keeps that arithmetic and shortens the         *)
(* significand from 53 bits to Precision bits: a float is an integer       *)
(* number of grid units (Unit units make one second) with at most          *)
(* Precision significant bits, and every float operation rounds its exact  *)
(* result to the nearest such number.                                      *)
(***************************************************************************)
EXTENDS Integers, Sequences, FiniteSets

\* Significand width of the modelled floats (53 in CPython).
Precision == 8
\* Grid units per second.
Unit == 2 ^ 12
\* The longest sequence of put calls explored by SpecBucket.
MaxPuts == 4

Abs(x) == IF x < 0 THEN -x ELSE x

\* Integer nearest to n/d (n >= 0, d > 0), ties to the even integer.
RoundHalfEven(n, d) ==
    LET q == n \div d
        r == n % d
    IN  IF 2 * r > d \/ (2 * r = d /\ q % 2 = 1) THEN q + 1 ELSE q

\* Spacing of the floats around n/d: the least power of two g with
\* n/d < g * 2^Precision.
RECURSIVE Spacing(_, _, _)
Spacing(n, d, g) ==
    IF n < d * g * (2 ^ Precision) THEN g ELSE Spacing(n, d, 2 * g)

\* The float nearest to the rational n/d (d > 0).
FloatRound(n, d) ==
    LET a == Abs(n)
        g == Spacing(a, d, 1)
        v == g * RoundHalfEven(a, d * g)
    IN  IF n < 0 THEN -v ELSE v

\* float * int, float + float, float / int as Python evaluates them.
FloatMul(x, k) == FloatRound(x * k, 1)
FloatAdd(x, y) == FloatRound(x + y, 1)
FloatDiv(x, k) == FloatRound(x, k)

\* format(x, '.6f'): x in grid units, the result in millionths of a second.
Format6f(x) ==
    LET v == RoundHalfEven(Abs(x) * 15625, Unit \div 64)
    IN  IF x < 0 THEN -v ELSE v

\* format(x, '.2f') of a percentage x held in grid units (Unit = 1 percent):
\* the result in hundredths of a percent.
Format2f(x) == RoundHalfEven(x * 100, Unit)

DstHost == "dst"
DstPort == 80

VARIABLES
    result,     \* the global ResultBucket, or Unallocated
    puts,       \* history: the put calls made so far, as <<conn_time, status>>
    report,     \* the last string get_statistics returned, or NoReport
    args,       \* the parsed command line
    pc,         \* the statement the main thread executes next
    mylogger,   \* whether the global logger exists
    handlers,   \* whether my_exit is installed for SIGINT and SIGTERM
    src_port,   \* go's src_port
    count,      \* go's count
    sock,       \* conn_tcp's socket s
    times,      \* conn_tcp's t1, t2, t3, te
    err,        \* conn_tcp's err
    local_addr, \* conn_tcp's local_addr
    exc,        \* the exception the except clause of conn_tcp is handling
    pending,    \* the exception propagating through the finally clause
    failed_at,  \* history: the statement of the try body that raised
    printed,    \* history: whether the cleanup close printed an exception
    ret,        \* the tuple conn_tcp returned last
    clock,      \* what time.time() returns now
    used_ports, \* history: the src_port of every conn_tcp call
    line,       \* the report line go logged last
    stats_logged \* how many statistics strings have been logged

bucket == <<result, puts, report>>
probe == <<sock, times, err, local_addr, exc, pending, failed_at, printed, ret>>
driver == <<args, pc, mylogger, handlers, src_port, count, clock, used_ports,
            line, stats_logged>>
driver_but_pc == <<args, mylogger, handlers, src_port, count, clock,
                   used_ports, line, stats_logged>>
vars == <<bucket, probe, driver>>

Unallocated == [allocated |-> FALSE]
NoReport == [emitted |-> FALSE]

\* ResultBucket.__init__
ResultBucket(dst_host, dst_port) ==
    [allocated     |-> TRUE,
     dst_host      |-> dst_host,
     dst_port      |-> dst_port,
     is_initialled |-> FALSE,
     ok_count      |-> 0,
     error_count   |-> 0,
     min_time      |-> 0,
     max_time      |-> 0,
     avg_time      |-> 0]

\* Python's builtins min and max on two floats.
min(a, b) == IF b < a THEN b ELSE a
max(a, b) == IF b > a THEN b ELSE a

\* The running average with the weight of the old average forgotten.
NextAvgUnweighted(avg_time, ok_count, conn_time) ==
    FloatDiv(FloatAdd(avg_time, conn_time), 2)

\* The running average of line 268.
NextAvg(avg_time, ok_count, conn_time) ==
    FloatDiv(FloatAdd(FloatMul(avg_time, ok_count), conn_time), ok_count + 1)

\* put with the latency of a failed attempt aggregated all the same.
putIgnoringStatus(self, conn_time, status) ==
    LET counted == IF status
                   THEN [self EXCEPT !.ok_count = @ + 1]
                   ELSE [self EXCEPT !.error_count = @ + 1]
    IN  IF ~self.is_initialled
        THEN [counted EXCEPT !.min_time = conn_time,
                             !.max_time = conn_time,
                             !.avg_time = conn_time,
                             !.is_initialled = TRUE]
        ELSE [counted EXCEPT !.min_time = min(self.min_time, conn_time),
                             !.max_time = max(self.max_time, conn_time)]

\* ResultBucket.put, lines 262-268: the first success initialises the
\* aggregates, a later one folds the latency into them.
put_aggregate(self, conn_time) ==
    IF ~self.is_initialled
    THEN [self EXCEPT !.min_time = conn_time,
                      !.max_time = conn_time,
                      !.avg_time = conn_time,
                      !.is_initialled = TRUE]
    ELSE [self EXCEPT !.min_time = min(self.min_time, conn_time),
                      !.max_time = max(self.max_time, conn_time),
                      !.avg_time = NextAvg(self.avg_time, self.ok_count,
                                           conn_time)]

\* ResultBucket.put, line 269.
put_count(self) == [self EXCEPT !.ok_count = @ + 1]

\* ResultBucket.put, line 260.
put_error(self) == [self EXCEPT !.error_count = @ + 1]

\* ResultBucket.put
put(self, conn_time, status) ==
    IF ~status
    THEN put_error(self)
    ELSE put_count(put_aggregate(self, conn_time))

\* get_statistics with the failures left out of the total.
get_statisticsOkOnly(self) ==
    LET total_count == self.ok_count
        error_rate  == IF total_count > 0
                       THEN FloatMul(FloatDiv(self.error_count * Unit,
                                              total_count), 100)
                       ELSE 0
    IN  [emitted   |-> TRUE,
         host      |-> self.dst_host,
         port      |-> self.dst_port,
         attempted |-> total_count,
         connected |-> self.ok_count,
         failed    |-> Format2f(error_rate),
         min       |-> Format6f(self.min_time),
         avg       |-> Format6f(self.avg_time),
         max       |-> Format6f(self.max_time)]

\* ResultBucket.get_statistics: the fields of the returned string.
get_statistics(self) ==
    LET total_count == self.ok_count + self.error_count
        error_rate  == IF total_count > 0
                       THEN FloatMul(FloatDiv(self.error_count * Unit,
                                              total_count), 100)
                       ELSE 0
    IN  [emitted   |-> TRUE,
         host      |-> self.dst_host,
         port      |-> self.dst_port,
         attempted |-> total_count,
         connected |-> self.ok_count,
         failed    |-> Format2f(error_rate),
         min       |-> Format6f(self.min_time),
         avg       |-> Format6f(self.avg_time),
         max       |-> Format6f(self.max_time)]

(***************************************************************************)
(* The program: __main__, go, conn_tcp and my_exit.                        *)
(***************************************************************************)
\* The most probes one run of the model makes.
MaxProbes == 3
\* time.time() when the program starts, in ticks; a tick is a quarter second.
Epoch == 8
TickUnits == Unit \div 4
TicksPerSecond == Unit \div TickUnits

\* The value -1 that marks an unmeasured time or duration (line 37).
Unmeasured == -1
\* Lines 53 and 167, and line 169.
PortLimit == 65536
PortRestart == 1024

NoCount == [given |-> FALSE, n |-> 0]
Count(n) == [given |-> TRUE, n |-> n]

\* The command lines explored: src_host "" and the ports 0 stand for absent
\* options (getargs, lines 196-222).
ArgsCommon ==
    [src_host : {"", "lo"},
     src_port : {0, 5000},
     src_rotate_port : {0, 65534},
     count : {NoCount, Count(0), Count(2)},
     rst : BOOLEAN,
     reuse : {FALSE},
     delay_close_second : {-1, 0, 1}]

\* Command lines with values argparse's type=int lets through: a source port
\* below 0 or above 65535, a count below 0.
ArgsOdd ==
    [src_host : {"", "lo"},
     src_port : {-5, 70000},
     src_rotate_port : {0},
     count : {Count(-1), Count(1)},
     rst : {FALSE},
     reuse : {TRUE},
     delay_close_second : {0}]

Args == ArgsCommon \cup ArgsOdd

NoTimes == [t1 |-> Unmeasured, t2 |-> Unmeasured, t3 |-> Unmeasured,
            te |-> Unmeasured]
NoReturn == [returned |-> FALSE]
NoLine == [logged |-> FALSE]

\* The probe's variables before conn_tcp has been called.
ProbeIdle ==
    /\ sock = "unbound"
    /\ times = NoTimes
    /\ err = "none"
    /\ local_addr = "None"
    /\ exc = "none"
    /\ pending = "none"
    /\ failed_at = "none"
    /\ printed = FALSE
    /\ ret = NoReturn

ProgramIdle ==
    /\ ProbeIdle
    /\ pc = "idle"
    /\ mylogger = FALSE
    /\ handlers = FALSE
    /\ src_port = 0
    /\ count = NoCount
    /\ clock = Epoch
    /\ used_ports = <<>>
    /\ line = NoLine
    /\ stats_logged = 0

\* The interpreter has parsed the command line (line 280).
Init ==
    /\ args \in Args
    /\ result = Unallocated
    /\ puts = <<>>
    /\ report = NoReport
    /\ ProbeIdle
    /\ pc = "main_result"
    /\ mylogger = FALSE
    /\ handlers = FALSE
    /\ src_port = 0
    /\ count = NoCount
    /\ clock = Epoch
    /\ used_ports = <<>>
    /\ line = NoLine
    /\ stats_logged = 0

Truthy(port) == port # 0

\* judge_count
judge_count(c) == IF c.given THEN c.n > 0 ELSE TRUE

\* The rotation with the wrap tested one port too late.
NextSrcPortLate(port) ==
    IF port + 1 > PortLimit THEN PortRestart ELSE port + 1

\* Lines 165-169: the source port of the next attempt in rotate mode.
NextSrcPort(port) ==
    IF port + 1 >= PortLimit THEN PortRestart ELSE port + 1

\* Lines 77-86: the durations conn_tcp returns.
ConnTime(t) ==
    IF t.te >= 0
    THEN IF t.t2 >= 0 THEN t.t2 - t.t1 ELSE t.te - t.t1
    ELSE IF t.t2 >= 0 THEN t.t2 - t.t1 ELSE Unmeasured

CloseTime(t) ==
    IF t.te >= 0
    THEN IF t.t2 >= 0 THEN t.t3 - t.t2
         ELSE IF t.t3 >= 0 THEN t.t3 - t.t2 ELSE Unmeasured
    ELSE IF t.t3 >= 0 THEN t.t3 - t.t2 ELSE Unmeasured

\* A duration in ticks as the float go hands to put.
ToFloat(ticks) == FloatRound(ticks * TickUnits, 1)

\* Line 281.
MainResult ==
    /\ pc = "main_result"
    /\ result' = ResultBucket(DstHost, DstPort)
    /\ pc' = "main_logger"
    /\ UNCHANGED <<puts, report, probe, args, mylogger, handlers, src_port,
                   count, clock, used_ports, line, stats_logged>>

\* Lines 284-303.
MainLogger ==
    /\ pc = "main_logger"
    /\ mylogger' = TRUE
    /\ pc' = "main_initial"
    /\ UNCHANGED <<bucket, probe, args, handlers, src_port, count, clock,
                   used_ports, line, stats_logged>>

\* The handlers installed as the first statement of the program, before the
\* aggregator and the logger exist.
initialFirst ==
    /\ pc = "main_result"
    /\ ~handlers
    /\ handlers' = TRUE
    /\ UNCHANGED <<bucket, probe, args, pc, mylogger, src_port, count, clock,
                   used_ports, line, stats_logged>>

\* initial, called at line 305.
initial ==
    /\ pc = "main_initial"
    /\ handlers' = TRUE
    /\ pc' = "main_judge"
    /\ UNCHANGED <<bucket, probe, args, mylogger, src_port, count, clock,
                   used_ports, line, stats_logged>>

\* judge_args, called at line 308: a source host without a port, or a port
\* without a host, gets a random static source port.
judge_args ==
    /\ pc = "main_judge"
    /\ IF (args.src_host # "")
           # (Truthy(args.src_port) \/ Truthy(args.src_rotate_port))
       THEN \E p \in {10000, 60000} : args' = [args EXCEPT !.src_port = p]
       ELSE args' = args
    /\ pc' = "main_go"
    /\ UNCHANGED <<bucket, probe, mylogger, handlers, src_port, count, clock,
                   used_ports, line, stats_logged>>

\* The call of go at line 310 and lines 137-139.
GoEnter ==
    /\ pc = "main_go"
    /\ src_port' = IF Truthy(args.src_rotate_port)
                   THEN args.src_rotate_port
                   ELSE args.src_port
    /\ count' = args.count
    /\ pc' = "loop_head"
    /\ UNCHANGED <<bucket, probe, args, mylogger, handlers, clock, used_ports,
                   line, stats_logged>>

\* Line 141, and the call of conn_tcp with line 37 when the loop goes on.
LoopHead ==
    /\ pc = "loop_head"
    /\ IF judge_count(count)
       THEN /\ Len(used_ports) < MaxProbes
            /\ used_ports' = Append(used_ports, src_port)
            /\ sock' = "unbound"
            /\ times' = NoTimes
            /\ err' = "none"
            /\ local_addr' = "None"
            /\ exc' = "none"
            /\ pending' = "none"
            /\ failed_at' = "none"
            /\ printed' = FALSE
            /\ pc' = "ct_socket"
            /\ UNCHANGED ret
       ELSE /\ pc' = "main_stats"
            /\ UNCHANGED <<probe, used_ports>>
    /\ UNCHANGED <<bucket, args, mylogger, handlers, src_port, count, clock,
                   line, stats_logged>>

\* Line 321.
MainStats ==
    /\ pc = "main_stats"
    /\ report' = get_statistics(result)
    /\ stats_logged' = stats_logged + 1
    /\ pc' = "done"
    /\ UNCHANGED <<result, puts, probe, args, mylogger, handlers, src_port,
                   count, clock, used_ports, line>>

\* A statement of the try body raises an Exception: control goes to line 66.
Raises(where, text) ==
    /\ failed_at' = where
    /\ exc' = text
    /\ pc' = "ct_except"

\* Line 44.
ConnSocket ==
    /\ pc = "ct_socket"
    /\ \/ /\ sock' = "fresh"
          /\ pc' = "ct_opts"
          /\ UNCHANGED <<exc, failed_at>>
       \/ /\ Raises("socket", "text")
          /\ UNCHANGED sock
    /\ UNCHANGED <<bucket, times, err, local_addr, pending, printed, ret,
                   driver_but_pc>>

\* Lines 46-52.
ConnOptions ==
    /\ pc = "ct_opts"
    /\ \/ /\ pc' = "ct_bind"
          /\ UNCHANGED <<exc, failed_at>>
       \/ /\ args.rst \/ args.reuse
          /\ Raises("setsockopt", "text")
    /\ UNCHANGED <<bucket, sock, times, err, local_addr, pending, printed, ret,
                   driver_but_pc>>

\* Line 53.
Binds(host, port) == host # "" /\ Truthy(port) /\ port < PortLimit

\* Line 54: socket.bind raises OverflowError for a port outside 0..65535.
BindAccepts(port) == port \in 0 .. PortLimit - 1

\* Lines 53-54.
ConnBind ==
    /\ pc = "ct_bind"
    /\ IF Binds(args.src_host, src_port)
       THEN \/ /\ BindAccepts(src_port)
               /\ sock' = "bound"
               /\ pc' = "ct_t1"
               /\ UNCHANGED <<exc, failed_at>>
            \/ /\ Raises("bind", "text")
               /\ UNCHANGED sock
       ELSE /\ pc' = "ct_t1"
            /\ UNCHANGED <<sock, exc, failed_at>>
    /\ UNCHANGED <<bucket, times, err, local_addr, pending, printed, ret,
                   driver_but_pc>>

\* Lines 56-57.
ConnT1 ==
    /\ pc = "ct_t1"
    /\ times' = [times EXCEPT !.t1 = clock]
    /\ pc' = "ct_connect"
    /\ UNCHANGED <<bucket, sock, err, local_addr, exc, pending, failed_at,
                   printed, ret, driver_but_pc>>

\* Line 58: the connect succeeds at once or after a tick, or fails after a
\* tick with an exception whose text may be empty.
ConnConnect ==
    /\ pc = "ct_connect"
    /\ \/ /\ sock' = "connected"
          /\ \E d \in {0, 1} : clock' = clock + d
          /\ pc' = "ct_getsockname"
          /\ UNCHANGED <<exc, failed_at>>
       \/ /\ sock' = "bound"
          /\ clock' = clock + 1
          /\ \E text \in {"text", "notext"} : Raises("connect", text)
    /\ UNCHANGED <<bucket, times, err, local_addr, pending, printed, ret,
                   args, mylogger, handlers, src_port, count, used_ports, line,
                   stats_logged>>

\* Line 59.
ConnGetsockname ==
    /\ pc = "ct_getsockname"
    /\ local_addr' = "addr"
    /\ pc' = "ct_t2"
    /\ UNCHANGED <<bucket, sock, times, err, exc, pending, failed_at, printed,
                   ret, driver_but_pc>>

\* Line 60.
ConnT2 ==
    /\ pc = "ct_t2"
    /\ times' = [times EXCEPT !.t2 = clock]
    /\ pc' = "ct_sleep"
    /\ UNCHANGED <<bucket, sock, err, local_addr, exc, pending, failed_at,
                   printed, ret, driver_but_pc>>

\* time.sleep without the suspension.
SleepTicksNone(secs) == 0

\* Line 62: the ticks time.sleep(secs) suspends the thread for.
SleepTicks(secs) == secs * TicksPerSecond

\* Line 62: time.sleep raises ValueError for a negative length, and
\* otherwise returns when the length has passed or a tick later.
ConnSleep ==
    /\ pc = "ct_sleep"
    /\ IF args.delay_close_second < 0
       THEN /\ Raises("sleep", "text")
            /\ UNCHANGED clock
       ELSE /\ \E late \in {0, 1} :
                   clock' = clock + SleepTicks(args.delay_close_second) + late
            /\ pc' = "ct_close"
            /\ UNCHANGED <<exc, failed_at>>
    /\ UNCHANGED <<bucket, sock, times, err, local_addr, pending, printed, ret,
                   args, mylogger, handlers, src_port, count, used_ports, line,
                   stats_logged>>

\* Line 63: the descriptor is released whether or not close reports an error.
ConnClose ==
    /\ pc = "ct_close"
    /\ sock' = "closed"
    /\ \/ /\ pc' = "ct_t3"
          /\ UNCHANGED <<exc, failed_at>>
       \/ Raises("close", "text")
    /\ UNCHANGED <<bucket, times, err, local_addr, pending, printed, ret,
                   driver_but_pc>>

\* Line 64.
ConnT3 ==
    /\ pc = "ct_t3"
    /\ times' = [times EXCEPT !.t3 = clock]
    /\ pc' = "ct_finally"
    /\ UNCHANGED <<bucket, sock, err, local_addr, exc, pending, failed_at,
                   printed, ret, driver_but_pc>>

\* s.getsockname() at line 66: s is not assigned when socket.socket raised,
\* and a closed socket has no descriptor to ask; a socket that was never
\* bound answers ('0.0.0.0', 0) on some platforms and raises on others.
GetsocknameReturns(so) == so \in {"fresh", "bound", "connected"}
GetsocknameRaises(so) == so \in {"unbound", "closed", "fresh"}

\* Line 66: an exception raised here leaves the except clause.
ConnExcept ==
    /\ pc = "ct_except"
    /\ \/ /\ GetsocknameReturns(sock)
          /\ local_addr' = "addr"
          /\ pc' = "ct_except2"
          /\ UNCHANGED pending
       \/ /\ GetsocknameRaises(sock)
          /\ pending' = "Exception"
          /\ pc' = "ct_finally"
          /\ UNCHANGED local_addr
    /\ UNCHANGED <<bucket, sock, times, err, exc, failed_at, printed, ret,
                   driver_but_pc>>

\* Lines 67-68.
ConnExcept2 ==
    /\ pc = "ct_except2"
    /\ err' = exc
    /\ times' = [times EXCEPT !.te = clock]
    /\ pc' = "ct_finally"
    /\ UNCHANGED <<bucket, sock, local_addr, exc, pending, failed_at, printed,
                   ret, driver_but_pc>>

\* Where control goes after the finally clause.
AfterFinally(p) ==
    CASE p = "none" -> "ct_return"
      [] p = "Exception" -> "crashed"
      [] p = "SystemExit" -> "exited"

\* Lines 69-74: the cleanup close; whatever Exception it raises (s not
\* assigned, or close failing) is printed and dropped.
ConnFinally ==
    /\ pc = "ct_finally"
    /\ \/ /\ sock = "unbound"
          /\ printed' = TRUE
          /\ UNCHANGED sock
       \/ /\ sock # "unbound"
          /\ sock' = "closed"
          /\ \/ UNCHANGED printed
             \/ /\ sock # "closed"
                /\ printed' = TRUE
    /\ pc' = AfterFinally(pending)
    /\ UNCHANGED <<bucket, times, err, local_addr, exc, pending, failed_at,
                   ret, driver_but_pc>>

\* Lines 76-87.
ConnReturn ==
    /\ pc = "ct_return"
    /\ ret' = [returned   |-> TRUE,
               conn_time  |-> ConnTime(times),
               close_time |-> CloseTime(times),
               err        |-> err,
               local_addr |-> local_addr]
    /\ pc' = "go_put"
    /\ UNCHANGED <<bucket, sock, times, err, local_addr, exc, pending,
                   failed_at, printed, driver_but_pc>>

\* The status taken from the text of the error, as the report line takes it.
StatusByText(e) == e # "text"

\* not bool(err): '' is false, an exception object is true.
Status(e) == e = "none"

\* Line 145 up to line 268 of put (all of put for a failed attempt).
GoPut ==
    /\ pc = "go_put"
    /\ IF Status(ret.err)
       THEN /\ result' = put_aggregate(result, ToFloat(ret.conn_time))
            /\ pc' = "go_put_count"
            /\ UNCHANGED puts
       ELSE /\ result' = put_error(result)
            /\ puts' = Append(puts, <<ToFloat(ret.conn_time), FALSE>>)
            /\ pc' = "go_report"
    /\ UNCHANGED <<report, probe, driver_but_pc>>

\* Line 269 of put.
GoPutCount ==
    /\ pc = "go_put_count"
    /\ result' = put_count(result)
    /\ puts' = Append(puts, <<ToFloat(ret.conn_time), TRUE>>)
    /\ pc' = "go_report"
    /\ UNCHANGED <<report, probe, driver_but_pc>>

\* Lines 148-162: the fields of the report line and its level.
ReportLine(r) ==
    [logged     |-> TRUE,
     local_addr |-> r.local_addr # "None",
     conn_time  |-> r.conn_time >= 0,
     error      |-> r.err = "text",
     level      |-> IF r.err = "text" THEN "error" ELSE "info"]

GoReport ==
    /\ pc = "go_report"
    /\ line' = ReportLine(ret)
    /\ pc' = "go_rotate"
    /\ UNCHANGED <<bucket, probe, args, mylogger, handlers, src_port, count,
                   clock, used_ports, stats_logged>>

\* Lines 164-169.
GoRotate ==
    /\ pc = "go_rotate"
    /\ src_port' = IF Truthy(args.src_rotate_port)
                   THEN NextSrcPort(src_port)
                   ELSE src_port
    /\ pc' = "go_count"
    /\ UNCHANGED <<bucket, probe, args, mylogger, handlers, count, clock,
                   used_ports, line, stats_logged>>

\* Lines 171-176: the interval is one tick.
GoCount ==
    /\ pc = "go_count"
    /\ count' = IF count.given THEN Count(count.n - 1) ELSE count
    /\ clock' = clock + 1
    /\ pc' = "loop_head"
    /\ UNCHANGED <<bucket, probe, args, mylogger, handlers, src_port,
                   used_ports, line, stats_logged>>

\* The statements of conn_tcp inside its try statement, the except clause
\* included: an exception raised there runs the finally clause.
InTry == pc \in {"ct_socket", "ct_opts", "ct_bind", "ct_t1", "ct_connect",
                 "ct_getsockname", "ct_t2", "ct_sleep", "ct_close", "ct_t3",
                 "ct_except", "ct_except2"}

Running == pc \in {"main_result", "main_logger", "main_initial", "main_judge",
                   "main_go", "loop_head", "main_stats", "ct_finally",
                   "ct_return", "go_put", "go_put_count", "go_report",
                   "go_rotate", "go_count"}
               \/ InTry

\* my_exit, run by the interpreter between two statements of the main
\* thread when SIGINT or SIGTERM has arrived: the statistics are logged and
\* exit() raises SystemExit where the main thread stands.
my_exit ==
    /\ handlers
    /\ Running
    /\ IF result.allocated /\ mylogger
       THEN /\ report' = get_statistics(result)
            /\ stats_logged' = stats_logged + 1
            /\ IF InTry
               THEN pending' = "SystemExit" /\ pc' = "ct_finally"
               ELSE pending' = pending /\ pc' = "exited"
       ELSE /\ pc' = "name_error"
            /\ UNCHANGED <<report, stats_logged, pending>>
    /\ UNCHANGED <<result, puts, sock, times, err, local_addr, exc, failed_at,
                   printed, ret, args, mylogger, handlers, src_port, count,
                   clock, used_ports, line>>

\* SIGINT or SIGTERM before initial has run: the default disposition ends
\* the process.
DefaultSignal ==
    /\ ~handlers
    /\ Running
    /\ pc' = "killed"
    /\ UNCHANGED <<bucket, probe, driver_but_pc>>

Next ==
    \/ MainResult \/ MainLogger \/ initial \/ judge_args \/ GoEnter
    \/ LoopHead \/ MainStats
    \/ ConnSocket \/ ConnOptions \/ ConnBind \/ ConnT1 \/ ConnConnect
    \/ ConnGetsockname \/ ConnT2 \/ ConnSleep \/ ConnClose \/ ConnT3
    \/ ConnExcept \/ ConnExcept2 \/ ConnFinally \/ ConnReturn
    \/ GoPut \/ GoPutCount \/ GoReport \/ GoRotate \/ GoCount
    \/ my_exit \/ DefaultSignal

Spec == Init /\ [][Next]_vars

(***************************************************************************)
(* SpecBucket: the aggregator on its own, driven by arbitrary put and      *)
(* get_statistics calls.                                                   *)
(***************************************************************************)
\* Latencies handed to put, in grid units: 0 s, 0.625 s, 0.8828125 s and the
\* unmeasured sentinel -1.
Latencies == {FloatRound(v, 1) : v \in {0, 2560, 3616, -Unit}}

InitBucket ==
    /\ result = ResultBucket(DstHost, DstPort)
    /\ puts = <<>>
    /\ report = NoReport
    /\ args \in Args
    /\ args.count = NoCount /\ args.src_host = "" /\ args.src_port = 0
    /\ args.src_rotate_port = 0 /\ args.delay_close_second = 0
    /\ ~args.rst /\ ~args.reuse
    /\ ProgramIdle

PutCall(conn_time, status) ==
    /\ Len(puts) < MaxPuts
    /\ result' = put(result, conn_time, status)
    /\ puts' = Append(puts, <<conn_time, status>>)
    /\ UNCHANGED <<report, probe, driver>>

GetStatisticsCall ==
    /\ report' = get_statistics(result)
    /\ UNCHANGED <<result, puts, probe, driver>>

NextBucket ==
    \/ \E conn_time \in Latencies, status \in BOOLEAN : PutCall(conn_time, status)
    \/ GetStatisticsCall

SpecBucket == InitBucket /\ [][NextBucket]_vars

(***************************************************************************)
(* History of the put calls, for stating what the aggregates should be.    *)
(***************************************************************************)
IsSuccess(call) == call[2]
Successes == SelectSeq(puts, IsSuccess)
Failures == SelectSeq(puts, LAMBDA call : ~call[2])

RECURSIVE SumOf(_)
SumOf(calls) ==
    IF calls = <<>> THEN 0 ELSE calls[1][1] + SumOf(Tail(calls))

RECURSIVE AbsSumOf(_)
AbsSumOf(calls) ==
    IF calls = <<>> THEN 0 ELSE Abs(calls[1][1]) + AbsSumOf(Tail(calls))

MinimumOf(calls) ==
    CHOOSE v \in {calls[i][1] : i \in DOMAIN calls} :
        \A i \in DOMAIN calls : v <= calls[i][1]

MaximumOf(calls) ==
    CHOOSE v \in {calls[i][1] : i \in DOMAIN calls} :
        \A i \in DOMAIN calls : v >= calls[i][1]

\* The last step was a call put(_, status).
PutStep(status) ==
    /\ Len(puts') = Len(puts) + 1
    /\ puts'[Len(puts')][2] = status

(***************************************************************************)
(* C1 (as stated): after any sequence of put calls whose successful        *)
(* latencies are L1..Ln, ok_count = n, min_time = minimum(L1..Ln),         *)
(* max_time = maximum(L1..Ln) and avg_time = (L1+...+Ln)/n, read in the    *)
(* claim's favour as the float nearest to that quotient.                   *)
(***************************************************************************)
C1_ExactMean ==
    LET n == Len(Successes)
    IN  /\ result.ok_count = n
        /\ n > 0 => /\ result.min_time = MinimumOf(Successes)
                    /\ result.max_time = MaximumOf(Successes)
                    /\ result.avg_time = FloatRound(SumOf(Successes), n)

(***************************************************************************)
(* C1 (amended): ok_count = n, min_time and max_time are exactly the       *)
(* minimum and the maximum of L1..Ln, and avg_time is the mean up to the   *)
(* rounding of the incremental formula: it is L1 when n = 1, and otherwise *)
(* |avg_time - mean| <= g * (|L1|+...+|Ln|)/n, where g = k*u/(1 - k*u),    *)
(* k = 3(n-1) is the number of rounded operations and u = 2^-Precision is  *)
(* the unit roundoff.                                                      *)
(***************************************************************************)
C1_MeanWithinRounding ==
    LET n == Len(Successes)
        k == 3 * (n - 1)
    IN  /\ result.ok_count = n
        /\ n > 0 => /\ result.min_time = MinimumOf(Successes)
                    /\ result.max_time = MaximumOf(Successes)
                    /\ n = 1 => result.avg_time = Successes[1][1]
                    /\ k < 2 ^ Precision
                    /\ Abs(result.avg_time * n - SumOf(Successes))
                           * (2 ^ Precision - k)
                         <= k * AbsSumOf(Successes)

\* Three successes around a failure have been aggregated.
C1_Witness ==
    /\ Len(Successes) >= 3
    /\ \E i \in 2 .. Len(puts) - 1 :
           ~puts[i][2] /\ puts[i - 1][2] /\ puts[i + 1][2]
    /\ result.ok_count = 3

(***************************************************************************)
(* C2: put(latency, status = false) adds one to error_count and leaves     *)
(* every other field of the aggregator as it was, whatever the latency     *)
(* and the state.                                                          *)
(***************************************************************************)
C2_FailedPutFrame ==
    [][PutStep(FALSE) =>
          result' = [result EXCEPT !.error_count = result.error_count + 1]]_vars

\* A failed put carrying a non-zero latency arrived after a success.
C2_Witness ==
    \E i \in 2 .. Len(puts) :
        /\ ~puts[i][2] /\ puts[i][1] # 0
        /\ puts[i - 1][2]
        /\ result.error_count >= 1 /\ result.is_initialled

(***************************************************************************)
(* C3: whenever ok_count > 0, min_time <= avg_time <= max_time.            *)
(***************************************************************************)
C3_AvgBetweenMinAndMax ==
    result.ok_count > 0 =>
        /\ result.min_time <= result.avg_time
        /\ result.avg_time <= result.max_time

(***************************************************************************)
(* C4: get_statistics can be evaluated in every reachable state, changes   *)
(* no field of the aggregator, reports ok_count + error_count (the number  *)
(* of put calls) as the total, error_count/total*100 as the failure        *)
(* percentage (0 when the total is 0; otherwise the float expression,      *)
(* which is within two roundings and the two-decimal formatting of the     *)
(* exact quotient), and 0 for min, avg and max on a fresh aggregator.      *)
(***************************************************************************)
C4_SnapshotState ==
    LET r == get_statistics(result)
        total == Len(puts)
        errors == Len(Failures)
    IN  /\ r.attempted = result.ok_count + result.error_count
        /\ r.attempted = total
        /\ r.connected = Len(Successes)
        /\ total = 0 => /\ r.failed = 0
                        /\ r.min = 0 /\ r.avg = 0 /\ r.max = 0
        /\ total > 0 =>
               Abs(r.failed * total - 10000 * errors)
                      * 2 * (2 ^ Precision - 2)
                 <= 4 * 10000 * errors + total * (2 ^ Precision - 2)

C4_GetStatisticsSafe ==
    /\ []C4_SnapshotState
    /\ [][report' # report =>
             /\ result' = result
             /\ report' = get_statistics(result)]_vars

\* A snapshot was taken before any put; two successes and a failure later
\* the aggregator reports a failure percentage.
C4_Witness ==
    /\ report = get_statistics(ResultBucket(DstHost, DstPort))
    /\ Len(puts) = 3 /\ Len(Failures) = 1
    /\ get_statistics(result).failed > 0

(***************************************************************************)
(* Positions of the main thread.                                           *)
(***************************************************************************)
InConnTcp == InTry \/ pc \in {"ct_finally", "ct_return"}

\* conn_tcp has returned to go and the next call has not been made.
Returned == pc \in {"go_put", "go_put_count", "go_report", "go_rotate",
                    "go_count"}

(***************************************************************************)
(* C5: every return of conn_tcp is a success (no error, both durations     *)
(* measured) or a failure (error populated, close duration unmeasured, at  *)
(* most a connect duration), and no duration that is present is negative.  *)
(***************************************************************************)
C5_ReturnShape ==
    Returned =>
        \/ /\ ret.err = "none"
           /\ ret.conn_time >= 0
           /\ ret.close_time >= 0
        \/ /\ ret.err # "none"
           /\ ret.close_time = Unmeasured
           /\ ret.conn_time = Unmeasured \/ ret.conn_time >= 0

(***************************************************************************)
(* C6: a failure of socket creation, of a socket option, of bind or of     *)
(* connect is returned as a failed result with the error populated;        *)
(* conn_tcp does not raise, and go goes on to put.                         *)
(***************************************************************************)
C6_FailureIsReturned ==
    failed_at \in {"socket", "setsockopt", "bind", "connect"} =>
        /\ pc # "crashed"
        /\ Returned => ret.err # "none"

(***************************************************************************)
(* C7: whenever control is outside conn_tcp, on whatever path it left,     *)
(* the socket of the last call is closed (or was never created).           *)
(***************************************************************************)
C7_SocketClosedOutside ==
    ~InConnTcp => sock \in {"unbound", "closed"}

(***************************************************************************)
(* C8: when the connect succeeded and the close at line 63 fails,          *)
(* conn_tcp still returns, and returns a result without an error.          *)
(***************************************************************************)
C8_CloseFailureHidden ==
    failed_at = "close" =>
        /\ pc # "crashed"
        /\ Returned => ret.err = "none"

(***************************************************************************)
(* C9: in rotate mode, with src_rotate_port in 1..65535, the first attempt *)
(* uses src_rotate_port whatever the static source port is, every later    *)
(* attempt uses the port of the attempt before plus one, 1024 after 65535, *)
(* and every port handed to conn_tcp is in 1..65535.                       *)
(***************************************************************************)
C9_Rotation ==
    args.src_rotate_port \in 1 .. 65535 =>
        \A i \in DOMAIN used_ports :
            /\ used_ports[i] \in 1 .. 65535
            /\ i = 1 => used_ports[i] = args.src_rotate_port
            /\ i > 1 => used_ports[i] = IF used_ports[i - 1] = 65535
                                        THEN 1024
                                        ELSE used_ports[i - 1] + 1

\* The rotation has wrapped, a static source port being given as well.
C9_Witness ==
    /\ used_ports = <<65534, 65535, 1024>>
    /\ args.src_port = 5000
    /\ pc = "ct_bind"

(***************************************************************************)
(* C10: when the process has exited through my_exit or after the loop has  *)
(* ended, the statistics of the aggregator as it then is have been logged; *)
(* the aggregator and the logger exist whenever the handlers are installed *)
(* and whenever go runs, and no shutdown path reads an aggregator that     *)
(* does not exist.                                                         *)
(***************************************************************************)
C10_SnapshotBeforeExit ==
    /\ pc \in {"exited", "done"} =>
           /\ stats_logged >= 1
           /\ report = get_statistics(result)
    /\ handlers => result.allocated /\ mylogger
    /\ (InConnTcp \/ Returned \/ pc \in {"loop_head", "main_stats"}) =>
           handlers /\ result.allocated /\ mylogger
    /\ pc # "name_error"

\* A signal ended the run in the middle of the second probe, after one
\* success had been aggregated.
C10_Witness ==
    /\ pc = "exited"
    /\ Len(used_ports) = 2
    /\ result.ok_count = 1
    /\ failed_at = "connect"
    /\ report.attempted = 1
    /\ stats_logged = 1

(***************************************************************************)
(* C11: when a socket option or bind fails, so that T1 is never recorded,  *)
(* the connect duration conn_tcp returns is the unmeasured value -1, and   *)
(* the line go logs for the attempt carries no conn_time field.            *)
(***************************************************************************)
C11_UnstartedConnectUnmeasured ==
    (failed_at \in {"setsockopt", "bind"} /\ times.t1 = Unmeasured) =>
        /\ Returned => ret.conn_time = Unmeasured
        /\ pc \in {"go_rotate", "go_count"} => ~line.conn_time

(***************************************************************************)
(* C12: a successful probe with delay_close_second = d >= 0 reports a      *)
(* close duration T3 - T2 of at least d seconds; on a failed probe no time *)
(* passes between the failure and the cleanup close, and a probe that      *)
(* failed before its connect completed never reached the delay.  The clock *)
(* does not run backwards.                                                 *)
(***************************************************************************)
C12_DelayBeforeClose ==
    /\ (Returned /\ ret.err = "none" /\ args.delay_close_second >= 0) =>
           ret.close_time * TickUnits >= args.delay_close_second * Unit
    /\ (pc = "ct_finally" /\ times.te >= 0) => clock = times.te
    /\ (InConnTcp /\ failed_at \in {"socket", "setsockopt", "bind", "connect"})
           => times.t2 = Unmeasured /\ times.t3 = Unmeasured

\* A probe held open for one second has returned after a probe that failed.
C12_Witness ==
    /\ pc = "go_report"
    /\ args.delay_close_second = 1
    /\ Len(puts) = 2 /\ ~puts[1][2] /\ puts[2][2]
    /\ ret.err = "none"
    /\ ret.close_time = TicksPerSecond

\* A signal has ended the run.
Signalled == pc \in {"exited", "name_error", "killed"} \/ pending = "SystemExit"

(***************************************************************************)
(* C13: at every loop head ok_count + error_count is the number of probes  *)
(* made; with a finite count n and no signal go makes max(n, 0) probes,    *)
(* each put once, and ends, the final statistics counting max(n, 0)        *)
(* attempts, and nothing but a signal or the end of the count ends the     *)
(* loop; with count absent the loop does not end on its own.               *)
(***************************************************************************)
C13_ExactIterations ==
    /\ pc = "loop_head" =>
           result.ok_count + result.error_count = Len(used_ports)
    /\ pc \in {"main_stats", "done"} =>
           /\ args.count.given
           /\ Len(used_ports) = max(args.count.n, 0)
           /\ Len(puts) = max(args.count.n, 0)
    /\ pc = "done" => report.attempted = max(args.count.n, 0)
    /\ ~Signalled => pc # "crashed"

(***************************************************************************)
(* C14: conn_tcp calls bind, before T1 is recorded, exactly when a source  *)
(* host is given and the source port is in 1..65535; with the host absent  *)
(* or the port 0 or outside 1..65535 the probe goes on to its connect      *)
(* and no bind fails.                                                      *)
(***************************************************************************)
C14_BindIffHostAndValidPort ==
    LET wanted == args.src_host # "" /\ src_port \in 1 .. 65535
    IN  /\ failed_at = "bind" => wanted
        /\ pc = "ct_t1" => (sock = "bound" <=> wanted)
        /\ pc = "ct_t1" => times.t1 = Unmeasured

\* The aggregator after the first n put calls of the history, each run whole.
RECURSIVE Replay(_)
Replay(n) ==
    IF n = 0
    THEN ResultBucket(DstHost, DstPort)
    ELSE put(Replay(n - 1), puts[n][1], puts[n][2])

(***************************************************************************)
(* C15: the statistics the shutdown path logs, whether my_exit runs on a   *)
(* signal or the loop has ended, are those of an aggregator on which a     *)
(* whole number of put calls has run: minimum, maximum and average show a  *)
(* success exactly when ok_count counts it.                                *)
(***************************************************************************)
C15_SnapshotOfWholePuts ==
    report.emitted => report = get_statistics(Replay(Len(puts)))

(***************************************************************************)
(* C16: for every attempt of go, put counts a failure exactly when the     *)
(* line logged for the attempt carries an ERROR field and is logged at     *)
(* error level.                                                            *)
(***************************************************************************)
C16_FailureTestsAgree ==
    pc \in {"go_rotate", "go_count"} =>
        (~puts[Len(puts)][2] <=> (line.error /\ line.level = "error"))

(***************************************************************************)
(* C17: every latency go aggregates as a success is the connect duration   *)
(* T2 - T1 of a connect that completed, not the unmeasured value -1 and    *)
(* not the time Te - T1 a failure took; so the minimum is not negative     *)
(* once a success is counted.  The clock does not run backwards.           *)
(***************************************************************************)
C17_SuccessLatencyMeasured ==
    /\ pc = "go_put_count" =>
           /\ times.t1 >= 0 /\ times.t2 >= times.t1
           /\ times.te = Unmeasured
           /\ ret.conn_time = times.t2 - times.t1
           /\ result.min_time <= ToFloat(ret.conn_time)
    /\ \A i \in DOMAIN puts : puts[i][2] => puts[i][1] >= 0
    /\ (result.allocated /\ result.ok_count > 0) => result.min_time >= 0

\* Two successes and a failure have been aggregated, one success after a
\* connect that took a tick.
C17_Witness ==
    /\ pc = "loop_head"
    /\ result.ok_count = 2 /\ result.error_count = 1
    /\ result.max_time = ToFloat(1)
    /\ result.min_time = 0

=============================================================================
